---- MODULE Spec2Model ----
(***************************************************************************)
(* A model of obun.py: the manifest parser, the recursive directive        *)
(* assembler (CodeAssembler.build), and the orchestration around it        *)
(* (main, run_build, stop_process, watch_loop).                            *)
(*                                                                         *)
(* A text is a sequence of one-character strings, exactly the characters   *)
(* of the Python str; lines, trimming, prefix tests and splitting are      *)
(* computed on the characters as the Python methods compute them.          *)
(***************************************************************************)
EXTENDS Integers, Sequences, FiniteSets

(***************************************************************************)
(* Characters and the str methods the program uses.                        *)
(***************************************************************************)
NL == "\n"
SP == " "

\* str.strip() / str.split() whitespace, restricted to the characters in use
IsSpace(c) == c \in {" ", "\n", "\t"}

RECURSIVE LStrip(_)
LStrip(s) ==
    IF s = <<>> THEN <<>>
    ELSE IF IsSpace(Head(s)) THEN LStrip(Tail(s)) ELSE s

RECURSIVE RStrip(_)
RStrip(s) ==
    IF s = <<>> THEN <<>>
    ELSE IF IsSpace(s[Len(s)]) THEN RStrip(SubSeq(s, 1, Len(s) - 1)) ELSE s

\* str.strip()
Strip(s) == RStrip(LStrip(s))

\* str.startswith(t)
StartsWith(s, t) == Len(s) >= Len(t) /\ SubSeq(s, 1, Len(t)) = t

\* index of the first character of s satisfying space-ness `sp`, or Len(s)+1
RECURSIVE FirstAt(_, _, _)
FirstAt(s, i, sp) ==
    IF i > Len(s) THEN i
    ELSE IF IsSpace(s[i]) = sp THEN i ELSE FirstAt(s, i + 1, sp)

\* str.split(maxsplit=1): the first word, then the remainder after the
\* first run of whitespace (absent when nothing but whitespace follows)
SplitMax1(s) ==
    LET b == FirstAt(s, 1, FALSE)
        e == FirstAt(s, b, TRUE)
        r == FirstAt(s, e, FALSE)
    IN  IF b > Len(s) THEN <<>>
        ELSE IF r > Len(s) THEN << SubSeq(s, b, e - 1) >>
        ELSE << SubSeq(s, b, e - 1), SubSeq(s, r, Len(s)) >>

\* str.splitlines(True): the lines of a text, each with its terminator
RECURSIVE SplitLinesFrom(_, _, _)
SplitLinesFrom(s, start, i) ==
    IF i > Len(s)
    THEN IF start > Len(s) THEN <<>> ELSE << SubSeq(s, start, Len(s)) >>
    ELSE IF s[i] = NL
         THEN << SubSeq(s, start, i) >> \o SplitLinesFrom(s, i + 1, i + 1)
         ELSE SplitLinesFrom(s, start, i + 1)

SplitLinesKeep(s) == SplitLinesFrom(s, 1, 1)

\* "".join(parts)
RECURSIVE Join(_)
Join(parts) == IF parts = <<>> THEN <<>> ELSE Head(parts) \o Join(Tail(parts))

\* any(seq) for a list of booleans
AnyTrue(bs) == \E i \in 1..Len(bs) : bs[i]

(***************************************************************************)
(* The declaration bindings of the program.                                *)
(***************************************************************************)
INCLUDE == << "#", ":", "s", "e", "c", "t", "i", "o", "n" >>
IF_TOK == << "#", ":", "i", "f" >>
ELSE_TOK == << "#", ":", "e", "l", "s", "e" >>
ENDIF == << "#", ":", "e", "n", "d", "i", "f" >>
MANIFEST_START == << "0", "o", " ", "-", "-", "-" >>
MANIFEST_END == << "-", "-", "-", " ", "o", "0" >>

\* str.splitlines(): the lines without their terminators
RECURSIVE DropTerminators(_)
DropTerminators(ls) ==
    IF ls = <<>> THEN <<>>
    ELSE LET l == Head(ls)
         IN  << IF l # <<>> /\ l[Len(l)] = NL THEN SubSeq(l, 1, Len(l) - 1) ELSE l >>
             \o DropTerminators(Tail(ls))

SplitLines(s) == DropTerminators(SplitLinesKeep(s))

\* index of the first c in s at or after i, or Len(s)+1
RECURSIVE IndexOf(_, _, _)
IndexOf(s, c, i) ==
    IF i > Len(s) THEN i ELSE IF s[i] = c THEN i ELSE IndexOf(s, c, i + 1)

(***************************************************************************)
(* Manifest.parse: a dict, as a function from key to value.                *)
(***************************************************************************)
EmptyManifest == [k \in {} |-> <<>>]

DictPut(d, k, v) == [x \in DOMAIN d \cup {k} |-> IF x = k THEN v ELSE d[x]]

\* dict.get(k, default)
DictGet(d, k, default) == IF k \in DOMAIN d THEN d[k] ELSE default

\* variant: the end sentinel closes the block and scanning goes on
RECURSIVE ManifestLinesResume(_, _)
ManifestLinesResume(ls, inside) ==
    IF ls = <<>> THEN <<>>
    ELSE LET stripped == Strip(Head(ls))
         IN  IF stripped = MANIFEST_START THEN ManifestLinesResume(Tail(ls), TRUE)
             ELSE IF stripped = MANIFEST_END THEN ManifestLinesResume(Tail(ls), FALSE)
             ELSE IF inside THEN << Head(ls) >> \o ManifestLinesResume(Tail(ls), inside)
             ELSE ManifestLinesResume(Tail(ls), inside)

\* lines 33-43: the lines collected between the start sentinel and the
\* first end sentinel (the loop breaks there)
RECURSIVE ManifestLines(_, _)
ManifestLines(ls, inside) ==
    IF ls = <<>> THEN <<>>
    ELSE LET stripped == Strip(Head(ls))
         IN  IF stripped = MANIFEST_START THEN ManifestLines(Tail(ls), TRUE)
             ELSE IF stripped = MANIFEST_END THEN <<>>
             ELSE IF inside THEN << Head(ls) >> \o ManifestLines(Tail(ls), inside)
             ELSE ManifestLines(Tail(ls), inside)

\* lines 45-48: k, v = line.split(":", 1), both stripped, later keys overwrite
RECURSIVE ManifestData(_, _)
ManifestData(ls, d) ==
    IF ls = <<>> THEN d
    ELSE LET line == Head(ls)
             c == IndexOf(line, ":", 1)
         IN  IF c <= Len(line)
             THEN ManifestData(Tail(ls),
                      DictPut(d, Strip(SubSeq(line, 1, c - 1)),
                                 Strip(SubSeq(line, c + 1, Len(line)))))
             ELSE ManifestData(Tail(ls), d)

ManifestParse(text) == ManifestData(ManifestLines(SplitLines(text), FALSE), EmptyManifest)

(***************************************************************************)
(* CodeAssembler.strip_manifest                                            *)
(***************************************************************************)
\* variant: the end sentinel line of a block is kept
RECURSIVE StripLinesKeepEnd(_, _)
StripLinesKeepEnd(ls, inside) ==
    IF ls = <<>> THEN <<>>
    ELSE LET stripped == Strip(Head(ls))
         IN  IF stripped = MANIFEST_START THEN StripLinesKeepEnd(Tail(ls), TRUE)
             ELSE IF stripped = MANIFEST_END
                  THEN << Head(ls) >> \o StripLinesKeepEnd(Tail(ls), FALSE)
             ELSE IF ~inside THEN << Head(ls) >> \o StripLinesKeepEnd(Tail(ls), inside)
             ELSE StripLinesKeepEnd(Tail(ls), inside)

RECURSIVE StripLines(_, _)
StripLines(ls, inside) ==
    IF ls = <<>> THEN <<>>
    ELSE LET stripped == Strip(Head(ls))
         IN  IF stripped = MANIFEST_START THEN StripLines(Tail(ls), TRUE)
             ELSE IF stripped = MANIFEST_END THEN StripLines(Tail(ls), FALSE)
             ELSE IF ~inside THEN << Head(ls) >> \o StripLines(Tail(ls), inside)
             ELSE StripLines(Tail(ls), inside)

\* variant: splitlines() without keepends, so the kept lines run together
strip_manifest_joined(text) == Join(StripLines(SplitLines(text), FALSE))

strip_manifest(text) == Join(StripLines(SplitLinesKeep(text), FALSE))

(***************************************************************************)
(* Paths.  (self.root / file).resolve(): the canonical path of an include  *)
(* argument, here the path relative to the root with "./" steps removed.   *)
(***************************************************************************)
RECURSIVE Resolve(_)
Resolve(arg) ==
    IF StartsWith(arg, << ".", "/" >>) THEN Resolve(SubSeq(arg, 3, Len(arg))) ELSE arg

\* index.name of resolve_input: the entry file
input_file == << "a" >>
PathB == << "b" >>
PathC == << "c" >>
\* the default artifact name of run_build, and the one the manifests name
DistPy == << "d", "i", "s", "t", ".", "p", "y" >>
OutO == << "o" >>

\* the names that exist or can come to exist under the root
Names == {input_file, PathB, PathC, DistPy, OutO}

NoFile == [exists |-> FALSE, text |-> <<>>, mtime |-> 0]
NoExc == [kind |-> "none", path |-> <<>>]
NoOutcome == [kind |-> "none", path |-> <<>>, text |-> <<>>]

(***************************************************************************)
(* The state of the program and of its environment.                        *)
(***************************************************************************)
VARIABLES
    disk,             \* the files under the root: name -> [exists, text, mtime]
    tmp,              \* the files in the temporary directory: name -> text
    defines,          \* CodeAssembler.defines (args.define)
    arg_output,       \* args.output (<<>> when not given)
    arg_mode,         \* args.build_mode ("" when not given)
    arg_watch,        \* args.watch
    visited,          \* CodeAssembler.visited
    manifest,         \* CodeAssembler.manifest.data
    stack,            \* the open build() calls, innermost last
    result,           \* the text returned by the entry build() call
    exc,              \* the exception raised by the last build attempt
    logged,           \* the failure printed by watch_loop's handler
    pc,               \* where main is
    in_watch,         \* watch_loop is running
    last,             \* watch_loop: last snapshot
    current,          \* watch_loop: current snapshot
    since_build,      \* time.time() - last_build, in tenths of a second, capped
    running_process,  \* main's running_process: a pid, or 0 for None
    procs,            \* every process spawned so far: pid -> "running" | "exited"
    signaled,         \* the pids whose process group was sent SIGTERM
    builds,           \* number of run_build calls so far
    edits,            \* number of external changes so far
    outcome,          \* history: how the last finished build attempt ended
    prev_outcome,     \* history: how the attempt before it ended
    chg_cur,          \* history: the tree changed since the last attempt began
    chg_prev,         \* history: the tree changed between the two last beginnings
    same_tree,        \* history: the two last attempts ran on the same tree
    unbuilt           \* history: an external change since the last attempt began

argVars == << defines, arg_output, arg_mode, arg_watch >>
asmVars == << visited, manifest, stack, result, exc >>
fsVars == << disk, tmp >>
procVars == << running_process, procs, signaled >>
watchVars == << in_watch, last, current, since_build >>
histVars == << outcome, prev_outcome, chg_cur, chg_prev, same_tree, unbuilt >>
vars == << argVars, asmVars, fsVars, procVars, watchVars, histVars,
           logged, pc, builds, edits >>

(***************************************************************************)
(* Bounds of the model and the program's timing constants.                 *)
(***************************************************************************)
MaxLines == 4         \* lines of an enumerated entry file
MaxBody == 2          \* lines of each branch of an enumerated if/else region
MaxInner == 3         \* lines inside an enumerated if-block
MaxBuilds == 3        \* run_build calls of one process
MaxEdits == 2         \* external changes of the tree during one process
Delay == 5            \* watch_loop's delay=0.5, in tenths of a second
Debounce == 3         \* the 0.3 of line 158, in tenths of a second
SinceCap == Delay + Debounce

(***************************************************************************)
(* CodeAssembler.build, one step per line of the file being processed.     *)
(***************************************************************************)
FileExists(f) == f \in DOMAIN disk /\ disk[f].exists

\* lines 94-98: the frame of a build() call that has read its file
\* one conditional stack shared by all files: the included file starts with
\* the frames of the including file
NewFrameShared(file) ==
    [file |-> file,
     lines |-> SplitLinesKeep(strip_manifest(disk[file].text)),
     i |-> 1,
     skip_stack |-> IF stack = <<>> THEN <<>> ELSE stack[Len(stack)].skip_stack,
     output |-> <<>>]

NewFrame(file) ==
    [file |-> file,
     lines |-> SplitLinesKeep(strip_manifest(disk[file].text)),
     i |-> 1,
     skip_stack |-> <<>>,
     output |-> <<>>]

\* the test of line 89 left out
NeverVisited(file, vis) == FALSE

\* line 89: the circular-include test
AlreadyVisited(file, vis) == file \in vis

\* lines 87-98: entering build(arg) with visited set vis
Enter(arg, vis) ==
    LET file == Resolve(arg)
    IN  IF AlreadyVisited(file, vis)
        THEN [exc |-> [kind |-> "circular", path |-> file], visited |-> vis, frames |-> <<>>]
        ELSE IF ~FileExists(file)
        THEN [exc |-> [kind |-> "missing", path |-> file],
              visited |-> vis \cup {file}, frames |-> <<>>]
        ELSE [exc |-> NoExc, visited |-> vis \cup {file}, frames |-> << NewFrame(file) >>]

Top == stack[Len(stack)]
CurLine == Top.lines[Top.i]
Stripped == Strip(CurLine)
AtLine == pc = "build" /\ stack # <<>> /\ Top.i <= Len(Top.lines)

\* lines 103, 109, 114, 123: the classification of a trimmed line
LineKind(stripped) ==
    IF StartsWith(stripped, INCLUDE) THEN "include"
    ELSE IF StartsWith(stripped, IF_TOK) THEN "if"
    ELSE IF StartsWith(stripped, ELSE_TOK) THEN "else"
    ELSE IF StartsWith(stripped, ENDIF) THEN "endif"
    ELSE "text"

\* only the innermost frame consulted: skip_stack[-1] for any(skip_stack)
EmittingByTop(skip_stack) == skip_stack = <<>> \/ ~skip_stack[Len(skip_stack)]

\* lines 104, 129: not any(skip_stack)
Emitting(skip_stack) == ~AnyTrue(skip_stack)

\* the test of line 111 inverted
IfSkipsInverted(condition, defs) == condition \in defs

\* line 111: the frame pushed by an if-line
IfSkips(condition, defs) == condition \notin defs

\* 'not any(skip_stack)' for 'not skip_stack'
UnmatchedNotAny(skip_stack) == ~AnyTrue(skip_stack)

\* lines 115, 124: the unmatched test
Unmatched(skip_stack) == skip_stack = <<>>

\* the top frame inverted whatever the frames below it say
ElseStackAlways(skip_stack) ==
    [skip_stack EXCEPT ![Len(skip_stack)] = ~skip_stack[Len(skip_stack)]]

\* lines 118-120: the stack after an else-line
ElseStack(skip_stack) ==
    LET n == Len(skip_stack)
        parent_skipping == AnyTrue(SubSeq(skip_stack, 1, n - 1))
    IN  IF ~parent_skipping THEN [skip_stack EXCEPT ![n] = ~skip_stack[n]] ELSE skip_stack

\* line 126: skip_stack.pop()
EndifStack(skip_stack) == SubSeq(skip_stack, 1, Len(skip_stack) - 1)

\* the top frame replaced by f
WithTop(f) == [stack EXCEPT ![Len(stack)] = f]
Advance(f) == [f EXCEPT !.i = @ + 1]

\* history: a build attempt has ended with outcome o
Ended(o) ==
    /\ outcome' = o
    /\ prev_outcome' = outcome
    /\ same_tree' = (~chg_cur /\ ~chg_prev)
    /\ UNCHANGED << chg_cur, chg_prev, unbuilt >>

\* run_build swallowing the exception and going on to write what it has
FailCtlSwallow(e) ==
    /\ exc' = e
    /\ stack' = <<>>
    /\ pc' = "built"
    /\ UNCHANGED << logged, watchVars >>

\* An exception leaves build() and run_build(): no frame of build handles
\* it.  Inside watch_loop lines 162-166 catch and print it and the loop goes
\* on; outside (line 258) it ends the process.
FailCtl(e) ==
    /\ exc' = e
    /\ stack' = <<>>
    /\ IF in_watch
       THEN /\ logged' = e
            /\ pc' = "watch_sleep"
            /\ last' = current
            /\ since_build' = 0
            /\ UNCHANGED << in_watch, current >>
       ELSE /\ pc' = "crashed"
            /\ UNCHANGED << logged, watchVars >>

FailOutcome(e) == [kind |-> e.kind, path |-> e.path, text |-> <<>>]

Fail(e) == FailCtl(e) /\ Ended(FailOutcome(e))

\* a step of build() that goes on in the same build
GoOn(newstack) ==
    /\ stack' = newstack
    /\ UNCHANGED << exc, logged, pc, watchVars, histVars >>

restOfBuild == << argVars, fsVars, procVars, manifest, result, builds, edits >>

\* lines 103-107
StepInclude ==
    /\ AtLine
    /\ LineKind(Stripped) = "include"
    /\ IF ~Emitting(Top.skip_stack)
       THEN GoOn(WithTop(Advance(Top))) /\ UNCHANGED visited
       ELSE LET parts == SplitMax1(Stripped)
            IN  IF Len(parts) < 2
                THEN Fail([kind |-> "index", path |-> <<>>]) /\ UNCHANGED visited
                ELSE LET e == Enter(parts[2], visited)
                     IN  /\ visited' = e.visited
                         /\ IF e.exc.kind # "none"
                            THEN Fail(e.exc)
                            ELSE GoOn(stack \o e.frames)
    /\ UNCHANGED restOfBuild

\* lines 109-112
StepIf ==
    /\ AtLine
    /\ LineKind(Stripped) = "if"
    /\ LET parts == SplitMax1(Stripped)
       IN  IF Len(parts) < 2
           THEN Fail([kind |-> "index", path |-> <<>>])
           ELSE GoOn(WithTop(Advance(
                    [Top EXCEPT !.skip_stack = Append(@, IfSkips(parts[2], defines))])))
    /\ UNCHANGED << visited, restOfBuild >>

\* lines 114-121
StepElse ==
    /\ AtLine
    /\ LineKind(Stripped) = "else"
    /\ IF Unmatched(Top.skip_stack)
       THEN Fail([kind |-> "unmatched_else", path |-> <<>>])
       ELSE GoOn(WithTop(Advance([Top EXCEPT !.skip_stack = ElseStack(@)])))
    /\ UNCHANGED << visited, restOfBuild >>

\* lines 123-127
StepEndif ==
    /\ AtLine
    /\ LineKind(Stripped) = "endif"
    /\ IF Unmatched(Top.skip_stack)
       THEN Fail([kind |-> "unmatched_endif", path |-> <<>>])
       ELSE GoOn(WithTop(Advance([Top EXCEPT !.skip_stack = EndifStack(@)])))
    /\ UNCHANGED << visited, restOfBuild >>

\* lines 129-130
StepText ==
    /\ AtLine
    /\ LineKind(Stripped) = "text"
    /\ GoOn(WithTop(Advance(
           IF Emitting(Top.skip_stack)
           THEN [Top EXCEPT !.output = Append(@, CurLine)]
           ELSE Top)))
    /\ UNCHANGED << visited, restOfBuild >>

\* the included text put in front of what the file has emitted so far
PrependIncluded(output, text) == << text >> \o output

\* line 106: output.append(self.build(include_file))
AppendIncluded(output, text) == Append(output, text)

\* a file that ends with an open conditional returning no text
ReturnTextClosedOnly(f) == IF f.skip_stack = <<>> THEN Join(f.output) ELSE <<>>

\* line 132: return "".join(output), whatever skip_stack holds
ReturnText(f) == Join(f.output)

\* line 132, and line 106 in the caller: an included file's text is appended
\* to the including file's output; the entry file's text is run_build's result
BuildReturn ==
    /\ pc = "build"
    /\ stack # <<>>
    /\ Top.i > Len(Top.lines)
    /\ LET text == ReturnText(Top)
           n == Len(stack)
       IN  IF n > 1
           THEN /\ stack' = [SubSeq(stack, 1, n - 1) EXCEPT
                                ![n - 1] = Advance([@ EXCEPT !.output = AppendIncluded(@, text)])]
                /\ UNCHANGED << result, pc, histVars >>
           ELSE /\ stack' = <<>>
                /\ result' = text
                /\ pc' = "built"
                /\ Ended([kind |-> "ok", path |-> <<>>, text |-> text])
    /\ UNCHANGED << argVars, fsVars, procVars, watchVars, visited, manifest, exc,
                    logged, builds, edits >>

(***************************************************************************)
(* main: run_build, stop_process                                           *)
(***************************************************************************)
KeyShebang == << "s", "h", "e", "b", "a", "n", "g" >>
KeyArtifact == << "a", "r", "t", "i", "f", "a", "c", "t", "-", "n", "a", "m", "e" >>
KeyMode == << "b", "u", "i", "l", "d", "-", "m", "o", "d", "e" >>
ModeRun == << "r", "u", "n" >>
ModeProd == << "p", "r", "o", "d" >>

\* Path.write_text: the file exists with the text and a later mtime
WriteFile(d, name, text) ==
    DictPut(d, name, [exists |-> TRUE, text |-> text,
                      mtime |-> (IF name \in DOMAIN d THEN d[name].mtime ELSE 0) + 1])

\* line 223 left out
KeepVisited(vis) == vis

\* line 223: assembler.visited.clear()
ClearVisited(vis) == {}

\* lines 210-218, on handle rp with process table ps and signaled set sg
StopProcess(rp, ps, sg) ==
    IF rp # 0 /\ ps[rp] = "running"
    THEN [running_process |-> 0, signaled |-> sg \cup {rp}]
    ELSE [running_process |-> rp, signaled |-> sg]

\* lines 220-227: clear the visited set, load the manifest, enter build()
RunBuildBegin ==
    /\ pc \in {"main", "watch_build"}
    /\ builds < MaxBuilds
    /\ builds' = builds + 1
    /\ chg_prev' = chg_cur
    /\ chg_cur' = FALSE
    /\ unbuilt' = FALSE
    /\ IF ~FileExists(input_file)
       THEN /\ visited' = ClearVisited(visited)
            /\ FailCtl([kind |-> "missing", path |-> input_file])
            /\ outcome' = [kind |-> "missing", path |-> input_file, text |-> <<>>]
            /\ prev_outcome' = outcome
            /\ same_tree' = ~chg_cur
            /\ UNCHANGED manifest
       ELSE LET e == Enter(input_file, ClearVisited(visited))
            IN  /\ manifest' = ManifestParse(disk[input_file].text)
                /\ visited' = e.visited
                /\ IF e.exc.kind # "none"
                   THEN /\ FailCtl(e.exc)
                        /\ outcome' = FailOutcome(e.exc)
                        /\ prev_outcome' = outcome
                        /\ same_tree' = ~chg_cur
                   ELSE /\ stack' = e.frames
                        /\ exc' = NoExc
                        /\ pc' = "build"
                        /\ UNCHANGED << logged, watchVars, outcome, prev_outcome, same_tree >>
    /\ UNCHANGED << argVars, fsVars, procVars, result, edits >>

\* lines 229-234
FinalText == 
    LET shebang == DictGet(manifest, KeyShebang, <<>>)
    IN  IF shebang # <<>> THEN << "#", "!" >> \o shebang \o << NL >> \o result ELSE result

OutputName == IF arg_output # <<>> THEN arg_output ELSE DictGet(manifest, KeyArtifact, DistPy)

BuildMode == IF arg_mode # <<>> THEN arg_mode ELSE DictGet(manifest, KeyMode, ModeProd)

\* lines 165-166 after a build_fn() that returned; line 260 after the first build
AfterBuild ==
    IF in_watch
    THEN /\ pc' = "watch_sleep"
         /\ last' = current
         /\ since_build' = 0
         /\ UNCHANGED << in_watch, current >>
    ELSE /\ pc' = IF arg_watch THEN "watch_start" ELSE "exit"
         /\ UNCHANGED watchVars

\* lines 229-256: write the artifact, or write the run file and restart the process
RunBuildFinish ==
    /\ pc = "built"
    /\ IF BuildMode = ModeRun /\ arg_output = <<>>
       THEN LET s == StopProcess(running_process, procs, signaled)
            IN  /\ tmp' = DictPut(tmp, OutputName, FinalText)
                /\ signaled' = s.signaled
                /\ procs' = Append(procs, "running")
                /\ running_process' = Len(procs) + 1
                /\ UNCHANGED << disk, chg_cur >>
       ELSE /\ disk' = WriteFile(disk, OutputName, FinalText)
            /\ chg_cur' = (chg_cur \/ ~FileExists(OutputName)
                                   \/ disk[OutputName].text # FinalText)
            /\ UNCHANGED << tmp, procVars >>
    /\ AfterBuild
    /\ UNCHANGED << argVars, asmVars, logged, builds, edits,
                    outcome, prev_outcome, chg_prev, same_tree, unbuilt >>

(***************************************************************************)
(* watch_loop and snapshot_files                                           *)
(***************************************************************************)
\* lines 137-145: the mtime of every file whose name does not start with "."
Snapshot(d) ==
    [n \in {m \in DOMAIN d : d[m].exists /\ Head(m) # "."} |-> d[n].mtime]

Min(a, b) == IF a < b THEN a ELSE b

\* lines 149-151: last_build = 0 lies further back than any debounce
WatchStart ==
    /\ pc = "watch_start"
    /\ in_watch' = TRUE
    /\ last' = Snapshot(disk)
    /\ since_build' = SinceCap
    /\ pc' = "watch_sleep"
    /\ UNCHANGED << argVars, asmVars, fsVars, procVars, histVars, current,
                    logged, builds, edits >>

\* line 158
Triggers(cur, lst, since) == cur # lst /\ since > Debounce

\* lines 155-159: sleep, take a snapshot, decide whether to rebuild
WatchTick ==
    /\ pc = "watch_sleep"
    /\ LET since == Min(since_build + Delay, SinceCap)
           cur == Snapshot(disk)
       IN  /\ since_build' = since
           /\ current' = cur
           /\ IF Triggers(cur, last, since)
              THEN builds < MaxBuilds /\ pc' = "watch_build"
              ELSE pc' = "watch_sleep"
    /\ UNCHANGED << argVars, asmVars, fsVars, procVars, histVars, in_watch, last,
                    logged, builds, edits >>

\* lines 168-171: Ctrl+C inside watch_loop, wherever the loop is
Interrupt ==
    /\ in_watch
    /\ pc \in {"watch_sleep", "watch_build", "build", "built"}
    /\ LET s == StopProcess(running_process, procs, signaled)
       IN  /\ running_process' = s.running_process
           /\ signaled' = s.signaled
    /\ stack' = <<>>
    /\ pc' = "stopped"
    /\ UNCHANGED << argVars, fsVars, watchVars, histVars, visited, manifest, result,
                    exc, procs, logged, builds, edits >>

(***************************************************************************)
(* The texts the files are drawn from.                                     *)
(***************************************************************************)
SymX == << "X" >>
SymY == << "Y" >>

LIncB == INCLUDE \o << SP >> \o PathB \o << NL >>
LIncC == INCLUDE \o << SP >> \o PathC \o << NL >>
LIncDotA == INCLUDE \o << SP, ".", "/" >> \o input_file \o << NL >>
LIncBare == INCLUDE \o << NL >>
LIfX == IF_TOK \o << SP >> \o SymX \o << NL >>
LIfY == << SP >> \o IF_TOK \o << SP, SP >> \o SymY \o << NL >>
LIfBare == IF_TOK \o << NL >>
LElse == ELSE_TOK \o << NL >>
LEndif == << SP, SP >> \o ENDIF \o << NL >>
LP == << "p", NL >>
LQ == << "q", NL >>
LR == << "r" >>
LMStart == MANIFEST_START \o << NL >>
LMEnd == MANIFEST_END \o << NL >>
LShebang == KeyShebang \o << ":", SP, "s", NL >>
LModeRun == KeyMode \o << ":", SP >> \o ModeRun \o << NL >>
LArtifact == KeyArtifact \o << ":" >> \o OutO \o << NL >>

\* entry files of the orchestration scenarios
ATexts ==
    { Join(<< LIncB, LIncC >>),
      Join(<< LMStart, LShebang, LModeRun, LMEnd, LIfX, LP, LElse, LQ, LEndif >>),
      Join(<< LMStart, LArtifact, LMEnd, LP, LIncB, LEndif >>),
      Join(<< LP, LIfBare >>) }

BTexts ==
    { Join(<< LIncC, LQ >>),
      Join(<< LIncDotA >>),
      Join(<< LIfY, LIncC, LElse, LR >>) }

CTexts == { Join(<< LP >>) }

File(text) == [exists |-> TRUE, text |-> text, mtime |-> 1]

\* the trees: a is the entry file, b exists, c may be missing
Trees ==
    { [n \in Names |->
         IF n = input_file THEN File(a)
         ELSE IF n = PathB THEN File(b)
         ELSE IF n = PathC THEN c
         ELSE NoFile] :
      a \in ATexts, b \in BTexts, c \in {NoFile} \cup {File(t) : t \in CTexts} }

DefineSets == { {}, {SymX} }

\* the command lines: [output, mode, watch]
ArgSets ==
    { [output |-> <<>>, mode |-> <<>>, watch |-> w] : w \in BOOLEAN }
    \cup { [output |-> <<>>, mode |-> ModeRun, watch |-> TRUE],
           [output |-> OutO, mode |-> ModeRun, watch |-> TRUE] }

\* all sequences over V of length at most n
SeqsUpTo(V, n) == UNION { [1..k -> V] : k \in 0..n }

InitWith(tree, defs, args) ==
    /\ disk = tree
    /\ tmp = [n \in {} |-> <<>>]
    /\ defines = defs
    /\ arg_output = args.output
    /\ arg_mode = args.mode
    /\ arg_watch = args.watch
    /\ visited = {}
    /\ manifest = EmptyManifest
    /\ stack = <<>>
    /\ result = <<>>
    /\ exc = NoExc
    /\ logged = NoExc
    /\ pc = "main"
    /\ in_watch = FALSE
    /\ last = [n \in {} |-> 0]
    /\ current = [n \in {} |-> 0]
    /\ since_build = 0
    /\ running_process = 0
    /\ procs = <<>>
    /\ signaled = {}
    /\ builds = 0
    /\ edits = 0
    /\ outcome = NoOutcome
    /\ prev_outcome = NoOutcome
    /\ chg_cur = FALSE
    /\ chg_prev = FALSE
    /\ same_tree = FALSE
    /\ unbuilt = FALSE

Init == \E tree \in Trees, defs \in DefineSets, args \in ArgSets : InitWith(tree, defs, args)

(***************************************************************************)
(* The environment: changes of the tree, and the spawned process ending.   *)
(***************************************************************************)
Live == pc \notin {"exit", "crashed", "stopped"}

\* what an editor does to the tree while the watcher runs: it saves a file
\* unchanged (touch), writes it with another text, or removes it
EditTexts == { Join(<< LP >>), Join(<< LIncC, LQ >>) }

EditOps ==
    { [name |-> input_file, op |-> "touch", text |-> <<>>],
      [name |-> PathC, op |-> "remove", text |-> <<>>] }
    \cup { [name |-> PathB, op |-> "write", text |-> t] : t \in EditTexts }
    \cup { [name |-> PathC, op |-> "write", text |-> Join(<< LP >>)] }

\* A change lands between two steps of the orchestrator: before or after a
\* build, or inside run_build between the assembly and the writing of the
\* artifact.
ExternalEdit ==
    /\ Live
    /\ arg_watch
    /\ pc # "build"
    /\ edits < MaxEdits
    /\ edits' = edits + 1
    /\ unbuilt' = TRUE
    /\ \E e \in EditOps :
          \/ /\ e.op = "touch"
             /\ disk[e.name].exists
             /\ disk' = [disk EXCEPT ![e.name].mtime = @ + 1]
             /\ UNCHANGED chg_cur
          \/ /\ e.op = "write"
             /\ ~(disk[e.name].exists /\ disk[e.name].text = e.text)
             /\ disk' = WriteFile(disk, e.name, e.text)
             /\ chg_cur' = TRUE
          \/ /\ e.op = "remove"
             /\ disk[e.name].exists
             /\ disk' = [disk EXCEPT ![e.name].exists = FALSE]
             /\ chg_cur' = TRUE
    /\ UNCHANGED << argVars, asmVars, procVars, watchVars, tmp, logged, pc, builds,
                    outcome, prev_outcome, chg_prev, same_tree >>

ProcExit ==
    /\ Live
    /\ \E pid \in 1..Len(procs) :
          /\ procs[pid] = "running"
          /\ procs' = [procs EXCEPT ![pid] = "exited"]
    /\ UNCHANGED << argVars, asmVars, fsVars, watchVars, histVars, running_process,
                    signaled, logged, pc, builds, edits >>

BuildStep ==
    \/ StepInclude
    \/ StepIf
    \/ StepElse
    \/ StepEndif
    \/ StepText
    \/ BuildReturn

Next ==
    \/ RunBuildBegin
    \/ BuildStep
    \/ RunBuildFinish
    \/ WatchStart
    \/ WatchTick
    \/ Interrupt
    \/ ExternalEdit
    \/ ProcExit

Spec == Init /\ [][Next]_vars

(***************************************************************************)
(* The assembler alone: one run_build of an entry file drawn from every    *)
(* sequence of directive and text lines up to MaxLines, and from every     *)
(* if/else/endif region with branches up to MaxBody lines.                 *)
(***************************************************************************)
LIffy == IF_TOK \o << "f", "y", NL >>

PlainLines == {LP, LQ}
CondVocab == {LIfX, LIfY, LElse, LEndif, LP, LQ}

\* every sequence of conditional directives and plain lines
CondTexts == { Join(ls) : ls \in SeqsUpTo(CondVocab, MaxLines) }

\* plain lines, an if/else/endif region with plain branches, plain lines
RegionTexts ==
    { Join(pre \o << ifl >> \o b1 \o << LElse >> \o b2 \o << LEndif >> \o post) :
      pre \in SeqsUpTo(PlainLines, 1), post \in SeqsUpTo(PlainLines, 1),
      ifl \in {LIfX, LIfY},
      b1 \in SeqsUpTo(PlainLines, MaxBody), b2 \in SeqsUpTo(PlainLines, MaxBody) }

\* an if-block around any lines, with a line before and a line after it
BlockTexts ==
    { Join(<< LP, ifl >> \o inner \o << LEndif, LQ >>) :
      ifl \in {LIfX, LIfY}, inner \in SeqsUpTo(CondVocab \cup {LIncB}, MaxInner) }

\* an include line between any two lines
IncludeTexts ==
    { Join(pre \o << LIncB >> \o post) :
      pre \in SeqsUpTo(CondVocab, 1), post \in SeqsUpTo(CondVocab, 1) }

\* lines that carry a reserved token and no argument
BareTexts ==
    { Join(<< LP, l, LQ >>) : l \in {LIfBare, LIncBare, LIffy} }
    \cup { Join(<< LIfY, l, LEndif, LQ >>) : l \in {LIfBare, LIncBare} }

\* lines of a manifest: the sentinels (the end sentinel indented), two
\* spellings of one key, and lines that are halves of the start sentinel
LMEndInd == << SP, SP >> \o MANIFEST_END \o << NL >>
LShebang2 == KeyShebang \o << SP, ":", "t", ":", "u", SP, NL >>
LHalfStart == << "0", "o", NL >>
LHalfEnd == << SP, "-", "-", "-", NL >>

ManVocab == {LMStart, LMEndInd, LShebang, LShebang2, LP, LElse}

\* every sequence of sentinel, key and other lines: several blocks, an end
\* sentinel before any start, a start with no end
ManifestTexts ==
    { Join(ls) : ls \in SeqsUpTo(ManVocab, MaxLines) }
    \cup { Join(<< LHalfStart, LHalfEnd >>), Join(<< LP, LHalfStart, LHalfEnd, LR >>) }

AsmATexts == CondTexts \cup RegionTexts \cup BlockTexts \cup BareTexts

AsmBTexts == { Join(<< LQ >>), Join(<< LIfY, LQ >>), Join(<< LElse, LR >>) }

AsmTree(a, b) ==
    [n \in Names |->
        IF n = input_file THEN File(a)
        ELSE IF n = PathB THEN File(b)
        ELSE IF n = PathC THEN File(Join(<< LP >>))
        ELSE NoFile]

NoArgs == [output |-> <<>>, mode |-> <<>>, watch |-> FALSE]

InitAsm ==
    \E defs \in DefineSets :
        \/ \E a \in AsmATexts : InitWith(AsmTree(a, Join(<< LQ >>)), defs, NoArgs)
        \/ \E a \in IncludeTexts, b \in AsmBTexts : InitWith(AsmTree(a, b), defs, NoArgs)
        \/ /\ defs = {}
           /\ \E a \in ManifestTexts : InitWith(AsmTree(a, Join(<< LQ >>)), defs, NoArgs)

NextAsm ==
    \/ RunBuildBegin
    \/ BuildStep
    \/ RunBuildFinish

SpecAsm == InitAsm /\ [][NextAsm]_vars

(***************************************************************************)
(* Vocabulary of the properties.                                           *)
(***************************************************************************)
KindAt(f, k) == LineKind(Strip(f.lines[k]))
ArgsAt(f, k) == SplitMax1(Strip(f.lines[k]))
AllText(f, lo, hi) == \A x \in lo..hi : KindAt(f, x) = "text"
OpenFiles == { stack[d].file : d \in 1..Len(stack) }

\* lines s < j < k of frame f are '#:if N', '#:else', '#:endif' with plain
\* lines between them, plain lines alone before s, and plain lines alone
\* from k up to the line f is at
IsRegion(f, s, j, k) ==
    /\ s < j /\ j < k /\ k < f.i
    /\ KindAt(f, k) = "endif"
    /\ KindAt(f, j) = "else"
    /\ KindAt(f, s) = "if" /\ Len(ArgsAt(f, s)) = 2
    /\ AllText(f, 1, s - 1) /\ AllText(f, s + 1, j - 1)
    /\ AllText(f, j + 1, k - 1) /\ AllText(f, k + 1, f.i - 1)

RegionBranch(f, s, j, k) ==
    IF ArgsAt(f, s)[2] \in defines
    THEN SubSeq(f.lines, s + 1, j - 1)
    ELSE SubSeq(f.lines, j + 1, k - 1)

\* C1: once a file's if/else/endif region (at the top level of the file, its
\* branches plain lines) has been processed, the output of the file is the
\* lines before the region, the lines of exactly one branch (the first when
\* the symbol is defined, the second when it is not) and the lines after it,
\* in order, with none of the three directive lines.
C1_ConditionalCorrectness ==
    \A d \in 1..Len(stack) :
        LET f == stack[d]
        IN  \A k \in 1..(f.i - 1) : \A j \in 1..(k - 1) : \A s \in 1..(j - 1) :
                IsRegion(f, s, j, k) =>
                    Join(f.output) =
                        Join(SubSeq(f.lines, 1, s - 1) \o RegionBranch(f, s, j, k)
                             \o SubSeq(f.lines, k + 1, f.i - 1))

\* a region with two non-empty branches on an undefined symbol, fully
\* processed together with a line after it
C1_Witness ==
    /\ stack # <<>>
    /\ Top.i > Len(Top.lines)
    /\ \E s, j, k \in 1..Len(Top.lines) :
          /\ IsRegion(Top, s, j, k)
          /\ ArgsAt(Top, s)[2] \notin defines
          /\ j > s + 1 /\ k > j + 1 /\ k < Len(Top.lines)
          /\ Top.output = SubSeq(Top.lines, 1, s - 1) \o SubSeq(Top.lines, j + 1, k - 1)
                          \o SubSeq(Top.lines, k + 1, Len(Top.lines))

\* an include line that is not skipped names a file that is open
C2_Reenters ==
    /\ AtLine
    /\ LineKind(Stripped) = "include"
    /\ ~AnyTrue(Top.skip_stack)
    /\ Len(SplitMax1(Stripped)) = 2
    /\ Resolve(SplitMax1(Stripped)[2]) \in OpenFiles

\* the first line of the file at path n that is not plain text is an
\* include line whose argument resolves to path m
FirstDirectiveIncludes(n, m) ==
    /\ FileExists(n)
    /\ LET ls == SplitLinesKeep(strip_manifest(disk[n].text))
       IN  \E x \in 1..Len(ls) :
              /\ \A y \in 1..(x - 1) : LineKind(Strip(ls[y])) = "text"
              /\ LineKind(Strip(ls[x])) = "include"
              /\ Len(SplitMax1(Strip(ls[x]))) = 2
              /\ Resolve(SplitMax1(Strip(ls[x]))[2]) = m

\* the first build of a tree in which a includes b and b includes a is over
C2_MutualDone ==
    /\ builds = 1 /\ edits = 0 /\ pc \notin {"main", "build"}
    /\ FirstDirectiveIncludes(input_file, PathB)
    /\ FirstDirectiveIncludes(PathB, input_file)

C2_Step ==
    /\ (StepInclude /\ C2_Reenters) =>
           /\ exc' = [kind |-> "circular", path |-> Resolve(SplitMax1(Stripped)[2])]
           /\ exc'.path \in OpenFiles
           /\ stack' = <<>>
           /\ visited' = visited
    /\ \A d1, d2 \in 1..Len(stack') : stack'[d1].file = stack'[d2].file => d1 = d2

C3_CircularOnlyWhenOpen ==
    [][ (StepInclude /\ exc'.kind = "circular") => exc'.path \in OpenFiles ]_vars

\* C4: two successive top-level builds between whose beginnings, and during
\* which, no file under the root changed end the same way: the same text, or
\* the same failure.
C4_Determinism ==
    (same_tree /\ prev_outcome.kind # "none") => outcome = prev_outcome

\* a rebuild on an unchanged tree that returned the text of the build before it
C4_Witness ==
    /\ same_tree
    /\ builds >= 2
    /\ prev_outcome.kind = "ok"
    /\ outcome.kind = "ok"
    /\ outcome.text # <<>>
    /\ pc = "built"

\* C5: a build attempt ends with the assembled text or with one of the four
\* error kinds: circular include, unmatched else, unmatched endif, missing
\* file.
C5_ClosedOutcomes ==
    exc.kind \in {"none", "circular", "unmatched_else", "unmatched_endif", "missing"}

\* C6: an else-line fails with the unmatched-else error exactly when the
\* conditional stack of the file is empty, an endif-line fails with the
\* unmatched-endif error exactly when it is empty; with a non-empty stack
\* the line raises nothing and the build goes on.
C6_DanglingElseEndif ==
    [][ /\ StepElse =>
              IF Top.skip_stack = <<>>
              THEN exc' = [kind |-> "unmatched_else", path |-> <<>>] /\ stack' = <<>>
              ELSE exc' = NoExc /\ Len(stack') = Len(stack) /\ pc' = "build"
        /\ StepEndif =>
              IF Top.skip_stack = <<>>
              THEN exc' = [kind |-> "unmatched_endif", path |-> <<>>] /\ stack' = <<>>
              ELSE exc' = NoExc /\ Len(stack') = Len(stack) /\ pc' = "build"
      ]_vars

\* an endif-line met with an empty stack after a closed block has ended the build
C6_Witness ==
    /\ exc.kind = "unmatched_endif"
    /\ pc = "crashed"
    /\ disk[input_file].text = Join(<< LIfX, LEndif, LEndif >>)

\* the nesting depth after lines s..x of frame f, counted from the if-line s
Depth(f, s, x) ==
    Cardinality({ y \in s..x : KindAt(f, y) = "if" })
    - Cardinality({ y \in s..x : KindAt(f, y) = "endif" })

\* the block opened at line s is still open after line x
OpenThrough(f, s, x) == \A y \in s..x : Depth(f, s, y) >= 1

\* line k is the endif of the block opened at line s
ClosesAt(f, s, k) == k > s /\ OpenThrough(f, s, k - 1) /\ Depth(f, s, k) = 0

\* the block opened at line s has an else-line of its own among lines s+1..x
OwnElse(f, s, x) ==
    \E j \in (s + 1)..x : KindAt(f, j) = "else" /\ Depth(f, s, j) = 1

\* line s of f is an if-line on an undefined symbol with plain lines alone before it
SkippedBlockAt(f, s) ==
    /\ KindAt(f, s) = "if"
    /\ Len(ArgsAt(f, s)) = 2
    /\ ArgsAt(f, s)[2] \notin defines
    /\ AllText(f, 1, s - 1)

C7_BlockInv ==
    \A d \in 1..Len(stack) :
        LET f == stack[d]
        IN  \A s \in 1..(f.i - 1) :
                SkippedBlockAt(f, s) =>
                    /\ (OpenThrough(f, s, f.i - 1) /\ ~OwnElse(f, s, f.i - 1)) =>
                           f.output = SubSeq(f.lines, 1, s - 1)
                    /\ \A k \in (s + 1)..(f.i - 1) :
                           (ClosesAt(f, s, k) /\ ~OwnElse(f, s, k) /\ AllText(f, k + 1, f.i - 1)) =>
                               f.output = SubSeq(f.lines, 1, s - 1)
                                          \o SubSeq(f.lines, k + 1, f.i - 1)

C7_TextStep ==
    StepText =>
        stack'[Len(stack)].output =
            IF \E x \in 1..Len(Top.skip_stack) : Top.skip_stack[x]
            THEN Top.output
            ELSE Append(Top.output, CurLine)

\* C7: a line that is no directive is appended to the output exactly when no
\* frame of the conditional stack is skipping.  So a block '#:if X' ...
\* '#:endif' on an undefined X without an else of its own puts no line in the
\* output, whatever directives are nested in it, and the plain lines after
\* its endif are appended as the lines before its if were.
C7_SkipRule == []C7_BlockInv /\ [][C7_TextStep]_vars

\* p, then a block on the undefined Y that holds a closed block on the
\* defined X with a plain line in it, then q: the output is p, q
C7_Witness ==
    /\ stack # <<>>
    /\ SymX \in defines
    /\ Top.lines = << LP, LIfY, LIfX, LQ, LEndif, LEndif, LQ >>
    /\ Top.i = 8
    /\ Top.output = << LP, LQ >>

\* a step in which the program (not an editor) changes a file, a process or a signal
C8_ProgramWrote ==
    \/ (edits' = edits /\ disk' # disk)
    \/ tmp' # tmp
    \/ running_process' # running_process
    \/ Len(procs') # Len(procs)
    \/ signaled' # signaled

\* C8: nothing is written and no process is stopped or started by a build
\* that fails.  The only steps of the program that change a file under the
\* root, a file of the temporary directory, the process handle, the spawned
\* processes or the signals sent are the part of run_build after a build()
\* that returned its text, and the cleanup on Ctrl+C; a failed attempt has
\* no such step between its beginning and its failure.
C8_NoPartialOutput ==
    [][ /\ C8_ProgramWrote =>
              \/ pc = "built" /\ exc = NoExc /\ outcome.kind = "ok"
              \/ pc' = "stopped"
        /\ (exc' # exc /\ exc'.kind # "none") => ~C8_ProgramWrote
      ]_vars

\* a run-mode rebuild has failed while the process and the run file of the
\* build before it are still there
C8_Witness ==
    /\ in_watch
    /\ exc.kind = "missing"
    /\ pc = "watch_sleep"
    /\ running_process = 1
    /\ procs = << "running" >>
    /\ signaled = {}
    /\ DistPy \in DOMAIN tmp

\* C9: a top-level build starts with no path of an earlier build in the
\* visited set (when the first line of the entry file is reached the set
\* holds the entry file alone), and while a build runs no path leaves it.
C9_VisitedLifecycle ==
    [][ IF builds' # builds
        THEN visited' \subseteq {input_file}
        ELSE visited \subseteq visited'
      ]_vars

\* the rebuild after a build that failed on the missing c is at its first line
C9_Witness ==
    /\ builds >= 2
    /\ outcome.kind = "missing"
    /\ outcome.path = PathC
    /\ pc = "build"
    /\ visited = {input_file}
    /\ Len(stack) = 1
    /\ Top.i = 1

\* C10: with --watch, no failed build attempt ends the process.
C10_WatchSurvivesFailure ==
    arg_watch => pc # "crashed"

(***************************************************************************)
(* The manifest block.                                                     *)
(***************************************************************************)
IsStartLine(l) == Strip(l) = MANIFEST_START
IsEndLine(l) == Strip(l) = MANIFEST_END
TextOf(f) == disk[f.file].text

\* C13: stripping the manifest is idempotent: the text a build() call has
\* just stripped (its frame is at its first line) is left unchanged by
\* strip_manifest, whatever sentinel lines the file's text holds.
C13_IdempotentStrip ==
    \A d \in 1..Len(stack) :
        stack[d].i = 1 =>
            LET once == strip_manifest(TextOf(stack[d]))
            IN  /\ stack[d].lines = SplitLinesKeep(once)
                /\ strip_manifest(once) = once

\* an end sentinel before any start, then a start with no end
C13_Witness ==
    /\ pc = "build"
    /\ Len(stack) = 1
    /\ Top.i = 1
    /\ TextOf(Top) = Join(<< LMEndInd, LP, LMStart, LShebang >>)
    /\ Top.lines = << LP >>

\* line x of ls lies after a start sentinel with no end sentinel in between
InBlock(ls, x) ==
    \E s \in 1..(x - 1) :
        /\ IsStartLine(ls[s])
        /\ \A y \in (s + 1)..(x - 1) : ~IsEndLine(ls[y])

KeptAt(ls, x) == ~IsStartLine(ls[x]) /\ ~IsEndLine(ls[x]) /\ ~InBlock(ls, x)

RECURSIVE KeptFrom(_, _)
KeptFrom(ls, x) ==
    IF x > Len(ls) THEN <<>>
    ELSE (IF KeptAt(ls, x) THEN << ls[x] >> ELSE <<>>) \o KeptFrom(ls, x + 1)

\* C14: the lines a build() call works on are exactly the lines of its file
\* that are neither a sentinel line nor between a start sentinel and the
\* next end sentinel (or the end of the text), unchanged and in order; so no
\* line of a manifest block is emitted or read as a directive.
C14_StripResult ==
    \A d \in 1..Len(stack) :
        stack[d].i = 1 =>
            stack[d].lines = KeptFrom(SplitLinesKeep(TextOf(stack[d])), 1)

\* a dangling else inside a manifest block is not among the lines to read,
\* the line after the block is
C14_Witness ==
    /\ pc = "build"
    /\ Len(stack) = 1
    /\ Top.i = 1
    /\ TextOf(Top) = Join(<< LMStart, LElse, LMEndInd, LP >>)
    /\ Top.lines = << LP >>

HasColon(line) == \E j \in 1..Len(line) : line[j] = ":"
KeyOf(line) == Strip(SubSeq(line, 1, IndexOf(line, ":", 1) - 1))
ValOf(line) == Strip(SubSeq(line, IndexOf(line, ":", 1) + 1, Len(line)))

\* the first line of ls that is a start (an end) sentinel, or Len(ls) + 1
FirstStart(ls) ==
    IF \E x \in 1..Len(ls) : IsStartLine(ls[x])
    THEN CHOOSE x \in 1..Len(ls) :
             IsStartLine(ls[x]) /\ \A y \in 1..(x - 1) : ~IsStartLine(ls[y])
    ELSE Len(ls) + 1

FirstEnd(ls) ==
    IF \E x \in 1..Len(ls) : IsEndLine(ls[x])
    THEN CHOOSE x \in 1..Len(ls) :
             IsEndLine(ls[x]) /\ \A y \in 1..(x - 1) : ~IsEndLine(ls[y])
    ELSE Len(ls) + 1

\* the mapping of the colon lines after the first start sentinel and before
\* the first end sentinel, the last line of a key giving its value
ManifestOf(text) ==
    LET ls == SplitLines(text)
        cand == { x \in 1..Len(ls) :
                    FirstStart(ls) < x /\ x < FirstEnd(ls) /\ HasColon(ls[x]) }
        keys == { KeyOf(ls[x]) : x \in cand }
        lastOf(k) == CHOOSE x \in cand :
                         KeyOf(ls[x]) = k /\ \A y \in cand : KeyOf(ls[y]) = k => y <= x
    IN  [k \in keys |-> ValOf(ls[lastOf(k)])]

\* C15: when run_build has loaded the manifest and build() is at the first
\* line of the entry file, the manifest maps exactly the colon
\* lines after the first start sentinel and before the first end sentinel of
\* the entry file (to the end of the text if there is none): key and value
\* split at the first colon and trimmed, a later duplicate overwriting, no
\* scanning after the first end sentinel, and nothing without a start.
C15_ManifestParse ==
    pc = "build" /\ Len(stack) = 1 /\ Top.i = 1 /\ Top.file = input_file
        => manifest = ManifestOf(disk[input_file].text)

\* two spellings of one key, the second with a colon in its value
C15_Witness ==
    /\ pc = "build"
    /\ disk[input_file].text = Join(<< LMStart, LShebang, LShebang2, LMEndInd >>)
    /\ manifest = [k \in {KeyShebang} |-> << "t", ":", "u" >>]

(***************************************************************************)
(* The else line.                                                          *)
(***************************************************************************)
C16_Step ==
    AtLine /\ KindAt(Top, Top.i) = "else" /\ Top.skip_stack # <<>> =>
        /\ pc' = "build"
        /\ Len(stack') = Len(stack)
        /\ \A d \in 1..(Len(stack) - 1) : stack'[d] = stack[d]
        /\ LET old == Top.skip_stack
               new == stack'[Len(stack)].skip_stack
               n == Len(old)
           IN  /\ Len(new) = n
               /\ \A j \in 1..(n - 1) : new[j] = old[j]
               /\ new[n] = (IF \E j \in 1..(n - 1) : old[j] THEN old[n] ELSE ~old[n])

\* C16: an else line met with a non-empty conditional stack never changes
\* the depth of the stack nor any frame but the top one; it inverts the top
\* frame exactly when no frame below it is skipping, and leaves the whole
\* stack as it is when one is.
C16_ElseFrameRule == [][C16_Step]_vars

\* an else line has been passed inside a skipped block, and one outside
C16_Witness ==
    /\ pc = "build"
    /\ Len(stack) = 1
    /\ Top.lines = << LIfY, LIfX, LElse, LEndif >>
    /\ Top.i = 4
    /\ Top.skip_stack = << TRUE, FALSE >>

(***************************************************************************)
(* The include line.                                                       *)
(***************************************************************************)
\* the file named by the include line x of frame f
IncludedAt(f, x) == Resolve(ArgsAt(f, x)[2])

\* a file of text lines only assembles to its own text
PlainFile(p) ==
    /\ FileExists(p)
    /\ LET ls == SplitLinesKeep(disk[p].text)
       IN  \A k \in 1..Len(ls) :
               LineKind(Strip(ls[k])) = "text" /\ ~IsStartLine(ls[k]) /\ ~IsEndLine(ls[k])

\* frame f has read, among text lines only, one include line x of a plain
\* file, and that include has returned
PlacedCase(f, x) ==
    /\ x < f.i
    /\ KindAt(f, x) = "include"
    /\ Len(ArgsAt(f, x)) = 2
    /\ \A k \in (1..(f.i - 1)) \ {x} : KindAt(f, k) = "text"
    /\ PlainFile(IncludedAt(f, x))

C17_Placed ==
    \A d \in 1..Len(stack) :
        \A x \in 1..Len(stack[d].lines) :
            PlacedCase(stack[d], x) =>
                stack[d].output =
                    SubSeq(stack[d].lines, 1, x - 1)
                    \o << disk[IncludedAt(stack[d], x)].text >>
                    \o SubSeq(stack[d].lines, x + 1, stack[d].i - 1)

C17_SkippedStep ==
    AtLine /\ KindAt(Top, Top.i) = "include" /\ AnyTrue(Top.skip_stack) =>
        /\ stack' = WithTop(Advance(Top))
        /\ visited' = visited
        /\ exc' = exc
        /\ pc' = "build"

\* C17: when an include line met with no frame skipping has returned, the
\* file's output holds the assembled text of the included file at the place
\* of the include line, between the lines before and after it, and not the
\* include line; an include line met while a frame is skipping emits
\* nothing, opens no file, adds nothing to visited and raises nothing.
C17_IncludeExpansion == []C17_Placed /\ [][C17_SkippedStep]_vars

\* the included text stands between the line before and the line after
C17_Witness ==
    /\ pc = "build"
    /\ Len(stack) = 1
    /\ Top.lines = << LP, LIncB, LQ >>
    /\ disk[PathB].text = LQ
    /\ Top.i = 4
    /\ Top.output = << LP, LQ, LQ >>
    /\ visited = {input_file, PathB}

(***************************************************************************)
(* The end of a file inside an open conditional.                           *)
(***************************************************************************)
\* frame f has read, among text lines only, one if line x with an argument
TailCase(f, x) ==
    /\ x < f.i
    /\ KindAt(f, x) = "if"
    /\ Len(ArgsAt(f, x)) = 2
    /\ \A k \in (1..(f.i - 1)) \ {x} : KindAt(f, k) = "text"

C18_Tail ==
    \A d \in 1..Len(stack) :
        \A x \in 1..Len(stack[d].lines) :
            TailCase(stack[d], x) =>
                stack[d].output =
                    SubSeq(stack[d].lines, 1, x - 1)
                    \o (IF ArgsAt(stack[d], x)[2] \in defines
                        THEN SubSeq(stack[d].lines, x + 1, stack[d].i - 1)
                        ELSE <<>>)

C18_Step ==
    pc = "build" /\ stack # <<>> /\ Top.i > Len(Top.lines) /\ Top.skip_stack # <<>> =>
        /\ exc' = exc
        /\ IF Len(stack) = 1
           THEN pc' = "built" /\ result' = Join(Top.output)
           ELSE /\ pc' = "build"
                /\ Len(stack') = Len(stack) - 1
                /\ stack'[Len(stack')].output =
                       Append(stack[Len(stack) - 1].output, Join(Top.output))

\* C18: a file whose text ends while its conditional stack is not empty is
\* accepted: build() returns the text emitted so far and raises nothing; the
\* text lines after the if line that is never closed are emitted when its
\* symbol is defined and dropped when it is not.
C18_UnterminatedIf == []C18_Tail /\ [][C18_Step]_vars

\* the entry file ends inside an open if and its text is the result
C18_Witness ==
    /\ pc = "built"
    /\ disk[input_file].text = Join(<< LP, LIfX, LQ >>)
    /\ SymX \in defines
    /\ result = Join(<< LP, LQ >>)
    /\ exc = NoExc

(***************************************************************************)
(* The conditional stack of each file.                                     *)
(***************************************************************************)
C19_StartsEmpty ==
    \A d \in 1..Len(stack) : stack[d].i = 1 => stack[d].skip_stack = <<>>

C19_Step ==
    /\ \A d \in 1..(Len(stack) - 1) :
           d <= Len(stack') => stack'[d].skip_stack = stack[d].skip_stack
    /\ AtLine /\ Len(stack) > 1 /\ Top.skip_stack = <<>>
          /\ KindAt(Top, Top.i) \in {"else", "endif"} =>
             /\ stack' = <<>>
             /\ exc'.kind = (IF KindAt(Top, Top.i) = "else"
                             THEN "unmatched_else" ELSE "unmatched_endif")

\* C19: the conditional stack belongs to one file: a build() call starts
\* with an empty stack; an else or endif line of an included file with no if
\* of its own fails as unmatched, whatever frames the including file has
\* open; and no step of an included file, its return with frames left open
\* included, changes the stack of a file that is waiting for it.
C19_StackPerFile == []C19_StartsEmpty /\ [][C19_Step]_vars

\* an else line of the included file, met while the including file has an
\* if open, failed as unmatched
C19_Witness ==
    /\ disk[input_file].text = Join(<< LIfX, LIncB >>)
    /\ SymX \in defines
    /\ disk[PathB].text = Join(<< LElse, LR >>)
    /\ visited = {input_file, PathB}
    /\ exc.kind = "unmatched_else"

(***************************************************************************)
(* The watch loop.                                                         *)
(***************************************************************************)
\* the watcher sleeps and its next snapshot will equal the last one: without
\* a further change of the tree it starts no rebuild
WatchIdle == in_watch /\ pc = "watch_sleep" /\ last = Snapshot(disk)

\* C11: every change of a tracked file triggers a rebuild: the watcher is
\* never idle while a change made since the last build began, a change made
\* while a build was running included, has not been followed by a rebuild.
C11_EveryChangeRebuilds == WatchIdle => ~unbuilt

\* a rebuild is started only after the sleep of Delay, which is longer than
\* the debounce interval, has passed since the last one ended
C11_DebounceStep == pc = "watch_sleep" /\ pc' = "watch_build" => since_build' > Debounce

C11_Debounce == [][C11_DebounceStep]_vars

(***************************************************************************)
(* The supervised process.                                                 *)
(***************************************************************************)
\* C12: whenever run_build has spawned a new process, every process spawned
\* before it has had its process group signaled, also one that had already
\* exited on its own: the only spawned process never signaled is the one
\* the handle names.
C12_PreviousSignaled ==
    \A pid \in 1..Len(procs) : pid # running_process => pid \in signaled

(***************************************************************************)
(* The watch loop at rest.                                                 *)
(***************************************************************************)
C20_Step == pc = "watch_sleep" /\ pc' = "watch_build" => unbuilt

\* C20: the watch loop starts a rebuild only after an external change: no
\* rebuild is triggered while nothing but the builds themselves has touched
\* the tree since the last build began.
C20_Quiescence == [][C20_Step]_vars

====
